---------------------------- MODULE Spec2Model ----------------------------
(***************************************************************************)
(* WebsiteAnalyzer (src/src/core/analyzer.py): one analyze_website call as  *)
(* a state machine.  Strings are sequences of symbols (words and the        *)
(* separators between them), so that substring tests, joins and prefixes    *)
(* are computed and not assumed.  JSON numbers are decimal literals turned  *)
(* into IEEE-754 doubles, so that int(score * 100) is computed as the       *)
(* interpreter computes it.                                                 *)
(***************************************************************************)
EXTENDS Integers, Sequences, FiniteSets, TLC

(***************************************************************************)
(* Strings                                                                 *)
(***************************************************************************)

\* Python's  a in b  for strings: a occurs as a contiguous run of b.
Contains(b, a) ==
    \E i \in 0..(Len(b) - Len(a)) : SubSeq(b, i + 1, i + Len(a)) = a

\* Python's  b.startswith(a).
StartsWith(b, a) ==
    Len(a) <= Len(b) /\ SubSeq(b, 1, Len(a)) = a

\* Python's  ' '.join(strs): the strings with one space between neighbours.
RECURSIVE Join(_)
Join(strs) ==
    IF Len(strs) = 0 THEN << >>
    ELSE IF Len(strs) = 1 THEN strs[1]
    ELSE strs[1] \o <<" ">> \o Join(Tail(strs))

\* Python's  b[n:].
DropFirst(b, n) == SubSeq(b, n + 1, Len(b))

\* prev is a prefix of next (sequences of issues).
IsPrefix(prev, next) ==
    Len(prev) <= Len(next) /\ SubSeq(next, 1, Len(prev)) = prev

\* The one value of a singleton set.  The({ f(x) : x \in {e} }) is f(e) with e
\* evaluated once.
The(set) == CHOOSE x \in set : TRUE

(***************************************************************************)
(* Natural numbers wider than a machine word, as little-endian sequences   *)
(* of 15-bit limbs with no high-order zero limb (0 is the empty sequence).  *)
(***************************************************************************)

Limb == 2^15

RECURSIVE ToNat(_)
ToNat(n) == IF n = 0 THEN << >> ELSE <<n % Limb>> \o ToNat(n \div Limb)

RECURSIVE FromNat(_)
FromNat(b) == IF Len(b) = 0 THEN 0 ELSE b[1] + Limb * FromNat(Tail(b))

RECURSIVE Normalize(_)
Normalize(b) ==
    IF Len(b) = 0 THEN b
    ELSE IF b[Len(b)] = 0 THEN Normalize(SubSeq(b, 1, Len(b) - 1))
    ELSE b

\* b * m + c for small naturals m, c < Limb.
RECURSIVE MulAdd(_, _, _)
MulAdd(b, m, c) ==
    IF Len(b) = 0 THEN ToNat(c)
    ELSE LET p == b[1] * m + c
         IN  <<p % Limb>> \o MulAdd(Tail(b), m, p \div Limb)

MulSmall(b, m) == Normalize(MulAdd(b, m, 0))

AddSmall(b, c) == MulAdd(b, 1, c)

\* Long division of b by a small d, 0 < d < Limb, from the high limb down:
\* [q |-> floor(b / d), r |-> b mod d].
RECURSIVE DivSmallFrom(_, _, _, _)
DivSmallFrom(b, d, i, rem) ==
    IF i = 0 THEN [q |-> << >>, r |-> rem]
    ELSE The({ The({ [q |-> rest.q \o <<cur \div d>>, r |-> rest.r]
                     : rest \in {DivSmallFrom(b, d, i - 1, cur % d)} })
               : cur \in {rem * Limb + b[i]} })

DivSmall(b, d) ==
    The({ [q |-> Normalize(res.q), r |-> res.r]
          : res \in {DivSmallFrom(b, d, Len(b), 0)} })

\* b * 2^k.
ShiftLeft(b, k) ==
    IF Len(b) = 0 THEN b
    ELSE [i \in 1..(k \div 15) |-> 0] \o MulSmall(b, 2^(k % 15))

\* floor(b / 2^k).
ShiftRight(b, k) ==
    IF k \div 15 >= Len(b) THEN << >>
    ELSE DivSmall(SubSeq(b, (k \div 15) + 1, Len(b)), 2^(k % 15)).q

\* b mod 2^k is not zero.
LowBitsSet(b, k) ==
    \/ \E i \in 1..(k \div 15) : i <= Len(b) /\ b[i] # 0
    \/ (k \div 15) + 1 <= Len(b) /\ b[(k \div 15) + 1] % (2^(k % 15)) # 0

\* Bit k of b, counted from 1 at the low end.
Bit(b, k) ==
    LET s == ShiftRight(b, k - 1) IN IF Len(s) = 0 THEN 0 ELSE s[1] % 2

RECURSIVE BitLenSmall(_)
BitLenSmall(n) == IF n = 0 THEN 0 ELSE 1 + BitLenSmall(n \div 2)

\* The number of bits of b.
BitLen(b) ==
    IF Len(b) = 0 THEN 0 ELSE 15 * (Len(b) - 1) + BitLenSmall(b[Len(b)])

(***************************************************************************)
(* IEEE-754 binary64, positive finite values and zero:                      *)
(*   [zero |-> TRUE]  or  [zero |-> FALSE, m |-> significand, e |-> exp]    *)
(* standing for m * 2^e, with m of exactly MantDig bits.                    *)
(***************************************************************************)

\* The bits carried by a significand (sys.float_info.mant_dig).
MantDig == 53

\* Bits of headroom kept below the significand while dividing.
GuardBits == 72

\* b0 (with `sticky` saying that a non-zero part below bit 1 was already
\* cut) rounded to MantDig bits, ties to even: [m, shift], value = m * 2^shift.
RoundUp(b, cut, kept, sticky) ==
    Bit(b, cut) = 1 /\ (sticky \/ LowBitsSet(b, cut - 1) \/ kept[1] % 2 = 1)

RoundToDouble(b0, sticky0) ==
    The({ IF cut <= 0 THEN [m |-> ShiftLeft(b, -cut), shift |-> cut]
          ELSE The({ The({ IF BitLen(m1) > MantDig
                           THEN [m |-> ShiftRight(m1, 1), shift |-> cut + 1]
                           ELSE [m |-> m1, shift |-> cut]
                           : m1 \in {IF RoundUp(b, cut, kept, sticky)
                                     THEN AddSmall(kept, 1) ELSE kept} })
                     : kept \in {ShiftRight(b, cut)} })
          : b \in {b0}, cut \in {BitLen(b0) - MantDig}, sticky \in {sticky0} })

\* float("n/d") for the decimal literal n/d: the double nearest to n/d.
DoubleOf(n, d) ==
    IF n = 0 THEN [zero |-> TRUE]
    ELSE The({ The({ [zero |-> FALSE, m |-> rnd.m, e |-> rnd.shift - GuardBits]
                     : rnd \in {RoundToDouble(quot.q, quot.r # 0)} })
               : quot \in {DivSmall(ShiftLeft(ToNat(n), GuardBits), d)} })

\* x * k for a double x and a small int k (float.__mul__): the exact product
\* rounded to the nearest double.
FloatMulInt(x0, k) ==
    The({ IF x.zero \/ k = 0 THEN [zero |-> TRUE]
          ELSE The({ [zero |-> FALSE, m |-> rnd.m, e |-> x.e + rnd.shift]
                     : rnd \in {RoundToDouble(MulSmall(x.m, k), FALSE)} })
          : x \in {x0} })

\* int(x) for a double x >= 0 below 2^31: truncation toward zero.
FloatToInt(x0) ==
    The({ IF x.zero THEN 0
          ELSE IF x.e >= 0 THEN FromNat(ShiftLeft(x.m, x.e))
          ELSE FromNat(ShiftRight(x.m, -x.e))
          : x \in {x0} })

\* Two naturals in limb form: a < b.
NatLess(a, b) ==
    \/ Len(a) < Len(b)
    \/ /\ Len(a) = Len(b)
       /\ \E i \in 1..Len(a) :
            /\ a[i] < b[i]
            /\ \A j \in (i + 1)..Len(a) : a[j] = b[j]

\* x < y for doubles x, y >= 0 (float.__lt__).
FloatLess(x0, y0) ==
    The({ IF y.zero THEN FALSE
          ELSE IF x.zero THEN TRUE
          ELSE x.e < y.e \/ (x.e = y.e /\ NatLess(x.m, y.m))
          : x \in {x0}, y \in {y0} })

(***************************************************************************)
(* Python ints.  A score is an unbounded int: [huge |-> FALSE, n |-> n] is  *)
(* the int n, and [huge |-> TRUE, ndigits |-> k] a positive int of k        *)
(* decimal digits, too wide to be written out here.                         *)
(***************************************************************************)

PyInt(n) == [huge |-> FALSE, n |-> n]

Huge(k) == [huge |-> TRUE, ndigits |-> k]

\* The largest number of decimal digits of an int that int / int still turns
\* into a float: sys.float_info.max is 1.797...e308, 309 digits.  The huge
\* ints met here have a multiple of 100 digits, so 309 itself never decides.
FloatMaxDigits == 309

(***************************************************************************)
(* JSON values of an external report                                       *)
(***************************************************************************)

\* The literal n/d written with a decimal point, an integer literal, a
\* string of symbols, and null.
JFloat(n, d) == [t |-> "float", n |-> n, d |-> d, s |-> << >>]

JInt(n) == [t |-> "int", n |-> n, d |-> 1, s |-> << >>]

JStr(s) == [t |-> "str", n |-> 0, d |-> 1, s |-> s]

JNull == [t |-> "null", n |-> 0, d |-> 1, s |-> << >>]

Digits == {"0", "1", "2", "3", "4", "5", "6", "7", "8", "9"}

\* A dict with no key.
EmptyDict == [k \in {} |-> JNull]

\* Outcome of an expression: a value, or an exception with its str(e).
Value(v) == [ok |-> TRUE, val |-> v, msg |-> << >>]

Raises(msg) == [ok |-> FALSE, val |-> PyInt(0), msg |-> msg]

TypeErrorMul == <<"unsupported operand type(s) for *: 'NoneType' and 'int'">>

TypeErrorLess == <<"'<' not supported between instances of 'NoneType' and 'float'">>

TypeErrorLessStr == <<"'<' not supported between instances of 'str' and 'float'">>

ValueErrorInt == <<"invalid literal for int() with base 10">>

KeyErrorScore == <<"'score'">>

AttributeErrorGet == <<"'list' object has no attribute 'get'">>

RECURSIVE LeadingZeros(_)
LeadingZeros(s) ==
    IF Len(s) = 0 \/ s[1] # "0" THEN 0 ELSE 1 + LeadingZeros(Tail(s))

\* int(v * 100) for a JSON value v, as lines 289-298 evaluate it: a float is
\* multiplied and truncated, an int multiplied, a str repeated 100 times and
\* parsed, None raises.
IntTimes100(v) ==
    CASE v.t = "float" ->
            Value(PyInt(FloatToInt(FloatMulInt(DoubleOf(v.n, v.d), 100))))
      [] v.t = "int" -> Value(PyInt(v.n * 100))
      [] v.t = "str" ->
            IF Len(v.s) > 0 /\ (\A i \in 1..Len(v.s) : v.s[i] \in Digits)
            THEN IF \A i \in 1..Len(v.s) : v.s[i] = "0"
                 THEN Value(PyInt(0))
                 ELSE Value(Huge(100 * Len(v.s) - LeadingZeros(v.s)))
            ELSE Raises(ValueErrorInt)
      [] OTHER -> Raises(TypeErrorMul)

\* v < 0.5 for a JSON value v (lines 306-343).
LessThanHalf(v) ==
    CASE v.t = "float" -> Value(FloatLess(DoubleOf(v.n, v.d), DoubleOf(1, 2)))
      [] v.t = "int" -> Value(2 * v.n < 1)
      [] v.t = "str" -> Raises(TypeErrorLessStr)
      [] OTHER -> Raises(TypeErrorLess)

(***************************************************************************)
(* Issue strings.  "Error", "accessing", "website" and the space are        *)
(* symbols of their own wherever they occur, so that the marker test of    *)
(* _calculate_priority sees every place the marker could start.            *)
(***************************************************************************)

NoUrlIssue == <<"No URL provided">>

NoSslIssue == <<"Website does not use SSL (https)">>

HttpsAvailableIssue == <<"HTTPS is available but not used by default">>

StatusIssue(code) == <<"Website returns HTTP status", " ", ToString(code)>>

RedirectIssue(target) == <<"Website redirects to", " ">> \o target

NoViewportIssue == <<"No mobile viewport meta tag found">>

PageSizeIssue(kb) == <<"Page size is large", " ", "(">> \o kb \o <<" ", "KB)">>

AccessErrorIssue(msg) == <<"Error", " ", "accessing", " ", "website", ":", " ">> \o msg

BasicErrorIssue(msg) == <<"Error", " ", "during basic analysis:", " ">> \o msg

NotAvailableIssue == <<"Lighthouse not available for detailed analysis">>

ProcessingErrorIssue(msg) == <<"Error", " ", "processing Lighthouse results:", " ">> \o msg

LcpIssue(display) == <<"Slow content loading", " ", "(LCP:", " ">> \o display \o <<")">>

TbtIssue(display) == <<"Poor interactivity", " ", "(TBT:", " ">> \o display \o <<")">>

ClsIssue(display) == <<"Layout shifts during loading", " ", "(CLS:", " ">> \o display \o <<")">>

MetaDescriptionIssue == <<"Missing meta description">>

DocumentTitleIssue == <<"Missing or poor document title">>

ColorContrastIssue == <<"Poor color contrast for text">>

ImageAltIssue == <<"Images missing alt text">>

NotHttpsIssue == <<"Not using HTTPS">>

DoctypeIssue == <<"Missing doctype">>

LargePageIssue == <<"Large page size">>

MissingTitleIssue == <<"Missing page title">>

MissingAltIssue == <<"Images may be missing alt text">>

\* ', '.join(names) after the fixed text.
RECURSIVE CommaJoin(_)
CommaJoin(names) ==
    IF Len(names) = 0 THEN << >>
    ELSE IF Len(names) = 1 THEN <<names[1]>>
    ELSE <<names[1], ",", " ">> \o CommaJoin(Tail(names))

MissingHeadersIssue(names) == <<"Missing security headers:", " ">> \o CommaJoin(names)

\* The marker _calculate_priority looks for.
AccessErrorMarker == <<"Error", " ", "accessing", " ", "website">>

(***************************************************************************)
(* The result record (lines 75-83) and its updates                         *)
(***************************************************************************)

ScoreFields ==
    {"performance_score", "seo_score", "accessibility_score", "best_practices_score"}

FreshResults ==
    [performance_score    |-> PyInt(0),
     seo_score            |-> PyInt(0),
     accessibility_score  |-> PyInt(0),
     best_practices_score |-> PyInt(0),
     has_ssl              |-> FALSE,
     has_mobile_viewport  |-> FALSE,
     issues               |-> << >>]

\* results['issues'].append(issue), with a variant that assigns a new list.
AppendIssue_Assign(res, issue) == [res EXCEPT !.issues = <<issue>>]

AppendIssue(res, issue) == [res EXCEPT !.issues = Append(@, issue)]

\* results[key] = value for a key the dict may not hold yet.
SetKey(res, key, value) ==
    [k \in DOMAIN res \cup {key} |-> IF k = key THEN value ELSE res[k]]

(***************************************************************************)
(* _process_lighthouse_results (lines 282-347).  The body of the try block  *)
(* is a chain of steps over [res, raised, msg]: once a step has raised, the *)
(* later ones are skipped, and what was written before stays.              *)
(***************************************************************************)

\* A parsed report: what json.load returned.
JDict(body) == [kind |-> "dict", body |-> body]

JList == [kind |-> "list", body |-> EmptyDict]

Running(res) == [res |-> res, raised |-> FALSE, msg |-> << >>]

Raised(res, msg) == [res |-> res, raised |-> TRUE, msg |-> msg]

\* dict.get(key, default).
Get(dict, key, default) == IF key \in DOMAIN dict THEN dict[key] ELSE default

\* if key in categories: results[field] = int(categories[key]['score'] * 100)
CategoryStep(prev, categories, key, field) ==
    The({ IF st.raised THEN st
          ELSE IF key \notin DOMAIN categories THEN st
          ELSE IF "score" \notin DOMAIN categories[key]
               THEN Raised(st.res, KeyErrorScore)
          ELSE The({ IF conv.ok THEN Running([st.res EXCEPT ![field] = conv.val])
                     ELSE Raised(st.res, conv.msg)
                     : conv \in {IntTimes100(categories[key]["score"])} })
          : st \in {prev} })

\* audit.get('displayValue') inside an f-string.
DisplayValue(audit) ==
    IF "displayValue" \in DOMAIN audit THEN audit["displayValue"].s ELSE <<"None">>

\* if id in audits: if audits[id].get('score', 1) < 0.5: append the issue.
AuditStep(prev, audits, id, issue) ==
    The({ IF st.raised THEN st
          ELSE IF id \notin DOMAIN audits THEN st
          ELSE The({ IF ~low.ok THEN Raised(st.res, low.msg)
                     ELSE IF low.val THEN Running(AppendIssue(st.res, issue))
                     ELSE st
                     : low \in {LessThanHalf(Get(audits[id], "score", JInt(1)))} })
          : st \in {prev} })

\* The display value a timing audit's issue carries (read only when the
\* audit is in the report).
AuditDisplay(audits, id) == DisplayValue(Get(audits, id, EmptyDict))

process_lighthouse_results(lighthouse_data, res) ==
    IF lighthouse_data.kind # "dict"
    THEN AppendIssue(res, ProcessingErrorIssue(AttributeErrorGet))
    ELSE
    LET categories == Get(lighthouse_data.body, "categories", EmptyDict)
        audits     == Get(lighthouse_data.body, "audits", EmptyDict)
        c1 == CategoryStep(Running(res), categories, "performance", "performance_score")
        c2 == CategoryStep(c1, categories, "accessibility", "accessibility_score")
        c3 == CategoryStep(c2, categories, "best-practices", "best_practices_score")
        c4 == CategoryStep(c3, categories, "seo", "seo_score")
        a1 == AuditStep(c4, audits, "largest-contentful-paint",
                        LcpIssue(AuditDisplay(audits, "largest-contentful-paint")))
        a2 == AuditStep(a1, audits, "total-blocking-time",
                        TbtIssue(AuditDisplay(audits, "total-blocking-time")))
        a3 == AuditStep(a2, audits, "cumulative-layout-shift",
                        ClsIssue(AuditDisplay(audits, "cumulative-layout-shift")))
        a4 == AuditStep(a3, audits, "meta-description", MetaDescriptionIssue)
        a5 == AuditStep(a4, audits, "document-title", DocumentTitleIssue)
        a6 == AuditStep(a5, audits, "color-contrast", ColorContrastIssue)
        a7 == AuditStep(a6, audits, "image-alt", ImageAltIssue)
        a8 == AuditStep(a7, audits, "is-on-https", NotHttpsIssue)
        a9 == AuditStep(a8, audits, "doctype", DoctypeIssue)
    IN  The({ IF st.raised THEN AppendIssue(st.res, ProcessingErrorIssue(st.msg))
              ELSE st.res
              : st \in {a9} })

(***************************************************************************)
(* _calculate_priority (lines 401-422)                                     *)
(***************************************************************************)

\* sum(scores): an int, huge as soon as one score is.
SumScores(res) ==
    LET fields == {f \in ScoreFields : res[f].huge}
    IN  IF fields = {}
        THEN PyInt(res.performance_score.n + res.seo_score.n
                   + res.accessibility_score.n + res.best_practices_score.n)
        ELSE Huge(CHOOSE k \in {res[f].ndigits : f \in fields} :
                    \A f \in fields : res[f].ndigits <= k)

\* sum(scores) / len(scores) raises OverflowError for an int too large for a
\* float; otherwise the mean, here as the pair total / count.
MeanScore(res) ==
    LET total == SumScores(res)
    IN  IF total.huge /\ total.ndigits > FloatMaxDigits
        THEN Raises(<<"integer division result too large for a float">>)
        ELSE Value([total |-> total, count |-> 4])

\* avg_score < 60.
MeanBelow(mean, limit) ==
    ~mean.total.huge /\ mean.total.n < limit * mean.count

PriorityScoreLimit == 60

PriorityIssueLimit == 3

\* The rule with the issue limit one too high (len(issues) > 4).
calculate_priority_LaxIssueLimit(res) ==
    IF Contains(Join(res.issues), AccessErrorMarker) THEN Value(1)
    ELSE LET mean == MeanScore(res)
         IN  IF ~mean.ok THEN mean
             ELSE IF MeanBelow(mean.val, PriorityScoreLimit)
                     \/ Len(res.issues) > PriorityIssueLimit + 1
                  THEN Value(2)
             ELSE Value(3)

\* The rule with the score limit taken inclusively (avg_score <= 60).
calculate_priority_Inclusive(res) ==
    IF Contains(Join(res.issues), AccessErrorMarker) THEN Value(1)
    ELSE LET mean == MeanScore(res)
         IN  IF ~mean.ok THEN mean
             ELSE IF MeanBelow(mean.val, PriorityScoreLimit + 1)
                     \/ Len(res.issues) > PriorityIssueLimit
                  THEN Value(2)
             ELSE Value(3)

calculate_priority(res) ==
    IF Contains(Join(res.issues), AccessErrorMarker) THEN Value(1)
    ELSE LET mean == MeanScore(res)
         IN  IF ~mean.ok THEN mean
             ELSE IF MeanBelow(mean.val, PriorityScoreLimit)
                     \/ Len(res.issues) > PriorityIssueLimit
                  THEN Value(2)
             ELSE Value(3)

(***************************************************************************)
(* URLs and HTTP                                                           *)
(***************************************************************************)

HttpScheme == <<"http://">>

HttpsScheme == <<"https://">>

\* url.startswith(('http://', 'https://')).
HasScheme(u) == StartsWith(u, HttpScheme) \/ StartsWith(u, HttpsScheme)

\* urlparse(u).netloc: the host after the scheme, empty without a scheme.
Netloc(u) == IF HasScheme(u) /\ Len(u) >= 2 THEN <<u[2]>> ELSE << >>

\* Line 121: the HTTPS variant the HEAD probe asks for ('http://' is one
\* symbol here, seven characters there).
HttpsVariant(u) ==
    IF StartsWith(u, HttpScheme) THEN HttpsScheme \o DropFirst(u, Len(HttpScheme))
    ELSE HttpsScheme \o u

\* str.lower(), symbol by symbol.
LowerSymbol(c) ==
    CASE c = "VIEWPORT" -> "viewport"
      [] c = "<TITLE>" -> "<title>"
      [] c = "</TITLE>" -> "</title>"
      [] c = "<IMG " -> "<img "
      [] c = " ALT=" -> " alt="
      [] OTHER -> c

Lower(text) == [i \in DOMAIN text |-> LowerSymbol(text[i])]

SecurityHeaders ==
    <<"Strict-Transport-Security", "Content-Security-Policy", "X-Content-Type-Options">>

\* What requests.get / requests.head gave: a response, or an exception.
Response(status, final, text, size, headers) ==
    [raised |-> "no", msg |-> << >>, status_code |-> status, url |-> final,
     text |-> text, size |-> size, headers |-> headers]

RequestFailed(class, msg) ==
    [raised |-> class, msg |-> msg, status_code |-> 0, url |-> << >>,
     text |-> << >>, size |-> 0, headers |-> {}]

\* The local response while no requests.get is being handled.
NoResponse == RequestFailed("unbound", << >>)

\* f"{size / 1024:.1f}": kilobytes with one decimal, ties to even.
FormatKb(size) ==
    LET num    == size * 10
        q      == num \div 1024
        r      == num % 1024
        tenths == IF r > 512 \/ (r = 512 /\ q % 2 = 1) THEN q + 1 ELSE q
    IN  <<ToString(tenths \div 10), ".", ToString(tenths % 10)>>

PageSizeLimitKb == 5000

ErrorStatus == 400

LargeContentBytes == 1000000

(***************************************************************************)
(* _check_website_basics (lines 112-155)                                   *)
(***************************************************************************)

\* Lines 116-127: the SSL check and the best-effort HEAD probe.
SslCheck(u, res, head) ==
    LET r1 == [res EXCEPT !.has_ssl = StartsWith(u, HttpsScheme)]
    IN  IF r1.has_ssl THEN r1
        ELSE LET r2 == AppendIssue(r1, NoSslIssue)
             IN  IF head.raised = "no" /\ head.status_code < ErrorStatus
                 THEN AppendIssue(r2, HttpsAvailableIssue)
                 ELSE r2

\* Lines 130-150 without the return of line 135: the later checks run on an
\* error response too.
InspectResponse_NoEarlyReturn(u, res, resp) ==
    LET r0 == IF resp.status_code >= ErrorStatus
              THEN AppendIssue(res, StatusIssue(resp.status_code))
              ELSE res
        r1 == IF Netloc(resp.url) # Netloc(u)
              THEN AppendIssue(r0, RedirectIssue(resp.url))
              ELSE r0
        r2 == IF Contains(Lower(resp.text), <<"viewport">>)
              THEN [r1 EXCEPT !.has_mobile_viewport = TRUE]
              ELSE AppendIssue(r1, NoViewportIssue)
    IN  IF resp.size > PageSizeLimitKb * 1024
        THEN AppendIssue(r2, PageSizeIssue(FormatKb(resp.size)))
        ELSE r2

\* Lines 130-150 on a response that arrived.
InspectResponse(u, res, resp) ==
    IF resp.status_code >= ErrorStatus
    THEN AppendIssue(res, StatusIssue(resp.status_code))
    ELSE LET r1 == IF Netloc(resp.url) # Netloc(u)
                   THEN AppendIssue(res, RedirectIssue(resp.url))
                   ELSE res
             r2 == IF Contains(Lower(resp.text), <<"viewport">>)
                   THEN [r1 EXCEPT !.has_mobile_viewport = TRUE]
                   ELSE AppendIssue(r1, NoViewportIssue)
         IN  IF resp.size > PageSizeLimitKb * 1024
             THEN AppendIssue(r2, PageSizeIssue(FormatKb(resp.size)))
             ELSE r2

\* Lines 130-155: what follows requests.get, on a response or an exception.
AfterGet(u, res, got) ==
    CASE got.raised = "no" -> InspectResponse(u, res, got)
      [] got.raised = "RequestException" -> AppendIssue(res, AccessErrorIssue(got.msg))
      [] OTHER -> AppendIssue(res, BasicErrorIssue(got.msg))

check_website_basics(u, res, head, got) == AfterGet(u, SslCheck(u, res, head), got)

(***************************************************************************)
(* _perform_basic_analysis (lines 349-399)                                 *)
(***************************************************************************)

\* [h for h in security_headers if h not in headers], in list order.
MissingHeaders(headers) ==
    SelectSeq(SecurityHeaders, LAMBDA h : h \notin headers)

perform_basic_analysis(res, got) ==
    IF got.raised # "no" THEN AppendIssue(res, BasicErrorIssue(got.msg))
    ELSE
    LET html == Lower(got.text)
        p  == IF got.size > LargeContentBytes
              THEN [AppendIssue(res, LargePageIssue) EXCEPT !.performance_score = PyInt(50)]
              ELSE [res EXCEPT !.performance_score = PyInt(70)]
        s0 == [p EXCEPT !.seo_score = PyInt(60)]
        s1 == IF ~Contains(html, <<"<title>">>) \/ Contains(html, <<"<title>", "</title>">>)
              THEN [AppendIssue(s0, MissingTitleIssue) EXCEPT !.seo_score = PyInt(40)]
              ELSE s0
        s2 == IF ~Contains(html, <<"meta name=\"description\"">>)
                 /\ ~Contains(html, <<"meta content=">>)
              THEN [AppendIssue(s1, MetaDescriptionIssue) EXCEPT !.seo_score = PyInt(40)]
              ELSE s1
        a0 == [s2 EXCEPT !.accessibility_score = PyInt(50)]
        a1 == IF Contains(html, <<"<img ">>)
                 /\ (~Contains(html, <<" alt=", "\"">>) \/ ~Contains(html, <<" alt=">>))
              THEN [AppendIssue(a0, MissingAltIssue) EXCEPT !.accessibility_score = PyInt(40)]
              ELSE a0
        b0 == [a1 EXCEPT !.best_practices_score = PyInt(60)]
        missing == MissingHeaders(got.headers)
    IN  IF Len(missing) > 0
        THEN [AppendIssue(b0, MissingHeadersIssue(missing))
                EXCEPT !.best_practices_score = PyInt(40)]
        ELSE b0

(***************************************************************************)
(* The temporary output file and the auditor subprocess                    *)
(***************************************************************************)

PyNone == [none |-> TRUE, data |-> JDict(EmptyDict)]

Some(data) == [none |-> FALSE, data |-> data]

\* The output file: absent, or present with its content.  parsed is what
\* json.load makes of a non-empty file, None when it is not JSON.
NoFile == [exists |-> FALSE, empty |-> TRUE, parsed |-> PyNone]

EmptyFile == [exists |-> TRUE, empty |-> TRUE, parsed |-> PyNone]

GarbageFile == [exists |-> TRUE, empty |-> FALSE, parsed |-> PyNone]

ReportFile(data) == [exists |-> TRUE, empty |-> FALSE, parsed |-> Some(data)]

\* One run of the auditor command: what subprocess.run raised ("no" for a
\* run that ended with any exit status, "TimeoutExpired", or "OSError" for a
\* missing binary) and what the command left at the output path (keep:
\* nothing written).
AuditorRun(raised, keep, file) == [raised |-> raised, keep |-> keep, file |-> file]

FileAfter(file, run) == IF run.keep THEN file ELSE run.file

\* Lines 277-280, the finally clause: unlink the file if it exists.  The
\* variant unlinks only a file that has content.
FinallyCleanup_OnlyNonEmpty(file) ==
    IF file.exists /\ ~file.empty THEN NoFile ELSE file

FinallyCleanup(file) == IF file.exists THEN NoFile ELSE file

\* bool(lighthouse_results), line 100.
Truthy(r) ==
    /\ ~r.none
    /\ (r.data.kind = "list" \/ DOMAIN r.data.body # {})

(***************************************************************************)
(* Inputs: what the caller and the collaborators may hand over             *)
(***************************************************************************)

Urls ==
    { << >>, <<"example.com">>, <<"http://", "example.com">>,
      <<"https://", "example.com">> }

ExceptionMessages ==
    { <<"Connection refused">>,
      <<"Network", " ", "Error">>,
      <<"Proxy:", " ", "Error", " ", "accessing", " ", "website">> }

PageFull ==
    <<"<title>", "Acme", "</title>", "meta name=\"description\"", "viewport",
      "<img ", " alt=", "\"", "logo", "\"">>

PageBare == <<"Hello">>

PageUpper == <<"<TITLE>", "</TITLE>", "meta content=", "VIEWPORT">>

PageSingleQuoteAlt ==
    <<"<title>", "Acme", "</title>", "meta name=\"description\"", "viewport",
      "<img ", " alt=", "'", "logo", "'">>

PageNoAlt ==
    <<"<title>", "Acme", "</title>", "meta name=\"description\"", "viewport",
      "<img ", "src=logo.png">>

Pages == {PageFull, PageBare, PageUpper, PageSingleQuoteAlt, PageNoAlt}

Sizes == {2048, 1000000, 1000001, 5120000, 5120001}

Statuses == {200, 399, 400, 503}

HeaderSets ==
    { {"Strict-Transport-Security", "Content-Security-Policy", "X-Content-Type-Options"},
      {"Content-Security-Policy"},
      {} }

FinalUrls == { <<"https://", "example.com">>, <<"http://", "example.com">>,
               <<"https://", "other.example">> }

GetOutcomes ==
    { Response(st, final, text, size, hs) :
        st \in Statuses, final \in FinalUrls, text \in Pages, size \in Sizes,
        hs \in HeaderSets }
    \cup { RequestFailed(class, msg) :
             class \in {"RequestException", "Exception"}, msg \in ExceptionMessages }

HeadOutcomes ==
    { Response(st, <<"https://", "example.com">>, << >>, 0, {}) : st \in Statuses }
    \cup { RequestFailed("RequestException", <<"Connection refused">>) }

Score(v) == [score |-> v]

Audit(v, display) == [score |-> v, displayValue |-> JStr(display)]

\* performance 0.9 and seo 0.3, nothing else.
ReportTwoCategories ==
    JDict([categories |-> ("performance" :> Score(JFloat(9, 10)))
                          @@ ("seo" :> Score(JFloat(3, 10)))])

\* Two-decimal scores as the auditor writes them, and a few audits.
ReportTwoDecimals ==
    JDict([categories |-> ("performance" :> Score(JFloat(29, 100)))
                          @@ ("accessibility" :> Score(JFloat(57, 100)))
                          @@ ("best-practices" :> Score(JFloat(58, 100)))
                          @@ ("seo" :> Score(JInt(1))),
           audits |-> ("largest-contentful-paint" :> Audit(JFloat(2, 10), <<"4.5 s">>))
                      @@ ("total-blocking-time" :> Audit(JFloat(9, 10), <<"50 ms">>))
                      @@ ("meta-description" :> Score(JInt(0)))
                      @@ ("document-title" :> EmptyDict)])

\* Every category at 0.6 and three failed audits.
ReportSixty ==
    JDict([categories |-> [c \in {"performance", "accessibility", "best-practices", "seo"}
                             |-> Score(JFloat(6, 10))],
           audits |-> ("cumulative-layout-shift" :> Score(JFloat(49, 100)))
                      @@ ("color-contrast" :> Score(JFloat(1, 10)))
                      @@ ("doctype" :> Score(JInt(0)))])

\* Scores of the wrong type: strings of digits.
ReportDigitString ==
    JDict([categories |-> ("performance" :> Score(JStr(<<"1", "2", "3", "4">>)))])

ReportOneDigitString ==
    JDict([categories |-> ("performance" :> Score(JStr(<<"1">>)))
                          @@ ("seo" :> Score(JFloat(1, 1)))])

ReportWordString ==
    JDict([categories |-> ("performance" :> Score(JFloat(5, 10)))
                          @@ ("seo" :> Score(JStr(<<"n", "/", "a">>)))])

ReportNullScore ==
    JDict([categories |-> ("performance" :> Score(JNull))
                          @@ ("seo" :> Score(JFloat(9, 10)))])

ReportNoScoreKey ==
    JDict([categories |-> ("performance" :> Score(JFloat(5, 10)))
                          @@ ("accessibility" :> EmptyDict)
                          @@ ("seo" :> Score(JFloat(9, 10)))])

ReportNullAudit ==
    JDict([categories |-> ("performance" :> Score(JFloat(8, 10))),
           audits |-> ("largest-contentful-paint" :> Audit(JFloat(1, 10), <<"9.1 s">>))
                      @@ ("total-blocking-time" :> Score(JNull))
                      @@ ("image-alt" :> Score(JInt(0)))])

ReportAllAudits ==
    JDict([audits |-> [a \in {"largest-contentful-paint", "total-blocking-time",
                              "cumulative-layout-shift", "meta-description",
                              "document-title", "color-contrast", "image-alt",
                              "is-on-https", "doctype"} |-> Score(JInt(0))]])

\* The document {} and the document [1].
ReportEmptyObject == JDict(EmptyDict)

ReportList == JList

Reports ==
    { ReportTwoCategories, ReportTwoDecimals, ReportSixty, ReportDigitString,
      ReportOneDigitString, ReportWordString, ReportNullScore, ReportNoScoreKey,
      ReportNullAudit, ReportAllAudits, ReportEmptyObject, ReportList }

AuditorRuns ==
    { AuditorRun("no", TRUE, NoFile),
      AuditorRun("no", FALSE, NoFile),
      AuditorRun("no", FALSE, GarbageFile),
      AuditorRun("TimeoutExpired", TRUE, NoFile),
      AuditorRun("TimeoutExpired", FALSE, GarbageFile),
      AuditorRun("TimeoutExpired", FALSE, ReportFile(ReportTwoCategories)),
      AuditorRun("OSError", TRUE, NoFile) }
    \cup { AuditorRun("no", FALSE, ReportFile(r)) : r \in Reports }

(***************************************************************************)
(* State                                                                   *)
(***************************************************************************)

VARIABLES
    pc,                   \* where the analyze_website call stands
    url_arg,              \* the url the caller passed
    url,                  \* the local url, after line 92
    results,              \* the results dict
    lighthouse_available, \* self.lighthouse_available
    chrome_installed,     \* a browser binary exists at one of the fixed paths
    output_file,          \* the file at output_path
    chrome_process,       \* "none", "running" or "terminated"
    lh_return,            \* the value a return statement of _run_lighthouse holds
    lighthouse_results,   \* lighthouse_results of analyze_website
    stages,               \* the pipeline stages entered, in order
    calls,                \* the collaborator calls made, in order
    response              \* the local response of the function that is fetching

vars ==
    <<pc, url_arg, url, results, lighthouse_available, chrome_installed,
      output_file, chrome_process, lh_return, lighthouse_results, stages, calls,
      response>>

\* __init__ and _check_lighthouse (lines 16-62): available when a browser is
\* found, or else when `lighthouse --version` exits 0 within its timeout.
check_lighthouse(chrome, version_ok) == chrome \/ version_ok

Init ==
    /\ pc = "call"
    /\ url_arg \in Urls
    /\ url = url_arg
    /\ results = FreshResults
    /\ chrome_installed \in BOOLEAN
    /\ \E use_lighthouse \in BOOLEAN, version_ok \in BOOLEAN :
         lighthouse_available =
            IF use_lighthouse THEN check_lighthouse(chrome_installed, version_ok)
            ELSE FALSE
    /\ output_file = NoFile
    /\ chrome_process = "none"
    /\ lh_return = PyNone
    /\ lighthouse_results = PyNone
    /\ stages = << >>
    /\ calls = << >>
    /\ response = NoResponse

(***************************************************************************)
(* analyze_website (lines 64-110), one action per stage                    *)
(***************************************************************************)

\* A call of a collaborator: what was called, on what, and what it raised.
Call(fn, arg, raised) == [fn |-> fn, arg |-> arg, raised |-> raised]

\* Lines 86-92 with the early return taken out: an empty url is reported and
\* then analysed like any other.
Validate_NoEarlyReturn ==
    /\ pc = "call"
    /\ results' = IF Len(url_arg) = 0 THEN AppendIssue(FreshResults, NoUrlIssue)
                  ELSE FreshResults
    /\ url' = IF HasScheme(url_arg) THEN url_arg ELSE HttpsScheme \o url_arg
    /\ pc' = "basics"
    /\ UNCHANGED <<response, url_arg, lighthouse_available, chrome_installed, output_file,
                   chrome_process, lh_return, lighthouse_results, stages, calls>>

\* Lines 75-92: the fresh results, the empty-url return, the default scheme.
Validate ==
    /\ pc = "call"
    /\ IF Len(url_arg) = 0
       THEN /\ results' = AppendIssue(FreshResults, NoUrlIssue)
            /\ pc' = "returned"
            /\ url' = url
       ELSE /\ results' = FreshResults
            /\ url' = IF HasScheme(url_arg) THEN url_arg ELSE HttpsScheme \o url_arg
            /\ pc' = "basics"
    /\ UNCHANGED <<response, url_arg, lighthouse_available, chrome_installed, output_file,
                   chrome_process, lh_return, lighthouse_results, stages, calls>>

\* Line 95: _check_website_basics.  The HEAD probe is made only for a url
\* that is not https.
CheckWebsiteBasics ==
    /\ pc = "basics"
    /\ \E head \in HeadOutcomes, got \in GetOutcomes :
         /\ results' = SslCheck(url, results, head)
         /\ response' = got
         /\ calls' = calls
                     \o (IF StartsWith(url, HttpsScheme) THEN << >>
                         ELSE <<Call("requests.head", HttpsVariant(url), head.raised)>>)
                     \o <<Call("requests.get", url, got.raised)>>
    /\ stages' = Append(stages, "basic")
    /\ pc' = "inspect"
    /\ UNCHANGED <<url_arg, url, lighthouse_available, chrome_installed, output_file,
                   chrome_process, lh_return, lighthouse_results>>

\* Lines 130-155: the rest of _check_website_basics, on what requests.get gave.
InspectBasics ==
    /\ pc = "inspect"
    /\ results' = AfterGet(url, results, response)
    /\ response' = NoResponse
    /\ pc' = "branch"
    /\ UNCHANGED <<url_arg, url, lighthouse_available, chrome_installed, output_file,
                   chrome_process, lh_return, lighthouse_results, stages, calls>>

\* Lines 102-104 and 353: the tool is not available; the notice, then the
\* fetch of _perform_basic_analysis.
Fallback ==
    /\ pc = "branch"
    /\ ~lighthouse_available
    /\ \E got \in GetOutcomes :
         /\ response' = got
         /\ calls' = Append(calls, Call("requests.get", url, got.raised))
    /\ results' = AppendIssue(results, NotAvailableIssue)
    /\ stages' = Append(stages, "fallback")
    /\ pc' = "analysis"
    /\ UNCHANGED <<url_arg, url, lighthouse_available, chrome_installed, output_file,
                   chrome_process, lh_return, lighthouse_results>>

\* Lines 354-399: the rest of _perform_basic_analysis, on what requests.get gave.
FallbackAnalysis ==
    /\ pc = "analysis"
    /\ results' = perform_basic_analysis(results, response)
    /\ response' = NoResponse
    /\ pc' = "priority"
    /\ UNCHANGED <<url_arg, url, lighthouse_available, chrome_installed, output_file,
                   chrome_process, lh_return, lighthouse_results, stages, calls>>

(***************************************************************************)
(* _run_lighthouse (lines 157-280), one action per block                   *)
(***************************************************************************)

\* Lines 98-99 and 160-186: the call, mkstemp, the search for a browser.
EnterLighthouse ==
    /\ pc = "branch"
    /\ lighthouse_available
    /\ output_file' = EmptyFile
    /\ calls' = Append(calls, Call("tempfile.mkstemp", << >>, "no"))
    /\ stages' = Append(stages, "lighthouse")
    /\ pc' = IF chrome_installed THEN "launch_chrome" ELSE "standalone"
    /\ UNCHANGED <<response, url_arg, url, results, lighthouse_available, chrome_installed,
                   chrome_process, lh_return, lighthouse_results>>

\* Lines 189-210: the command line is built (mkdtemp may fail, which the
\* outer handler takes) and the browser is started (a failure is taken by
\* the inner handler).
LaunchChrome ==
    /\ pc = "launch_chrome"
    /\ \E outcome \in {"mkdtemp fails", "Popen fails", "started"} :
         CASE outcome = "mkdtemp fails" ->
                /\ lh_return' = PyNone
                /\ pc' = "finally"
                /\ calls' = Append(calls, Call("tempfile.mkdtemp", << >>, "OSError"))
                /\ UNCHANGED chrome_process
           [] outcome = "Popen fails" ->
                /\ pc' = "standalone"
                /\ calls' = Append(calls, Call("subprocess.Popen", url, "OSError"))
                /\ UNCHANGED <<chrome_process, lh_return>>
           [] OTHER ->
                /\ chrome_process' = "running"
                /\ calls' = Append(calls, Call("subprocess.Popen", url, "no"))
                /\ pc' = "chrome_audit"
                /\ UNCHANGED lh_return
    /\ UNCHANGED <<response, url_arg, url, results, lighthouse_available, chrome_installed,
                   output_file, lighthouse_results, stages>>

\* Lines 212-237: the auditor runs beside the browser; terminate() follows
\* the run inside the same try block, so an exception of the run skips it.
ChromeAudit ==
    /\ pc = "chrome_audit"
    /\ \E run \in AuditorRuns :
         /\ output_file' = FileAfter(output_file, run)
         /\ IF run.raised = "no"
            THEN /\ chrome_process' = "terminated"
                 /\ calls' = calls \o <<Call("npx lighthouse", url, run.raised),
                                        Call("chrome_process.terminate", << >>, "no")>>
            ELSE /\ chrome_process' = chrome_process
                 /\ calls' = Append(calls, Call("npx lighthouse", url, run.raised))
    /\ pc' = "standalone"
    /\ UNCHANGED <<response, url_arg, url, results, lighthouse_available, chrome_installed,
                   lh_return, lighthouse_results, stages>>

\* Lines 240-258: the standalone auditor, run when no output is there yet.
\* Its exceptions go to the outer handlers, which return None.
Standalone ==
    /\ pc = "standalone"
    /\ IF ~output_file.exists \/ output_file.empty
       THEN \E run \in AuditorRuns :
              /\ output_file' = FileAfter(output_file, run)
              /\ calls' = Append(calls, Call("lighthouse", url, run.raised))
              /\ IF run.raised = "no"
                 THEN pc' = "parse" /\ lh_return' = lh_return
                 ELSE pc' = "finally" /\ lh_return' = PyNone
       ELSE /\ pc' = "parse"
            /\ UNCHANGED <<output_file, calls, lh_return>>
    /\ UNCHANGED <<response, url_arg, url, results, lighthouse_available, chrome_installed,
                   chrome_process, lighthouse_results, stages>>

\* Lines 261-276: the output is read; a file that is not JSON raises inside
\* the try block and None is returned.
ParseOutput ==
    /\ pc = "parse"
    /\ lh_return' = IF output_file.exists /\ ~output_file.empty
                    THEN output_file.parsed
                    ELSE PyNone
    /\ pc' = "finally"
    /\ UNCHANGED <<response, url_arg, url, results, lighthouse_available, chrome_installed,
                   output_file, chrome_process, lighthouse_results, stages, calls>>

\* Lines 277-280 and the return to line 99.
Finally ==
    /\ pc = "finally"
    /\ output_file' = FinallyCleanup(output_file)
    /\ calls' = IF output_file.exists
                THEN Append(calls, Call("os.unlink", << >>, "no"))
                ELSE calls
    /\ lighthouse_results' = lh_return
    /\ pc' = "after_lighthouse"
    /\ UNCHANGED <<response, url_arg, url, results, lighthouse_available, chrome_installed,
                   chrome_process, lh_return, stages>>

\* Lines 100-101: a report came back.
Normalizer ==
    /\ pc = "after_lighthouse"
    /\ Truthy(lighthouse_results)
    /\ results' = process_lighthouse_results(lighthouse_results.data, results)
    /\ stages' = Append(stages, "normalizer")
    /\ pc' = "priority"
    /\ UNCHANGED <<response, url_arg, url, lighthouse_available, chrome_installed, output_file,
                   chrome_process, lh_return, lighthouse_results, calls>>

\* Line 100 with a fallback added for the case that no report came back.
NoReport_ThenFallback ==
    /\ pc = "after_lighthouse"
    /\ ~Truthy(lighthouse_results)
    /\ \E got \in GetOutcomes :
         /\ results' = perform_basic_analysis(results, got)
         /\ calls' = Append(calls, Call("requests.get", url, got.raised))
    /\ stages' = Append(stages, "fallback")
    /\ pc' = "priority"
    /\ UNCHANGED <<response, url_arg, url, lighthouse_available, chrome_installed, output_file,
                   chrome_process, lh_return, lighthouse_results>>

\* Line 100: nothing (or an empty document) came back; nothing is done.
NoReport ==
    /\ pc = "after_lighthouse"
    /\ ~Truthy(lighthouse_results)
    /\ pc' = "priority"
    /\ UNCHANGED <<response, url_arg, url, results, lighthouse_available, chrome_installed,
                   output_file, chrome_process, lh_return, lighthouse_results,
                   stages, calls>>

\* Lines 108-110: the priority is set and the results returned, or the
\* exception of _calculate_priority leaves analyze_website.
SetPriority ==
    /\ pc = "priority"
    /\ LET p == calculate_priority(results)
       IN  IF p.ok
           THEN results' = SetKey(results, "priority", p.val) /\ pc' = "returned"
           ELSE results' = results /\ pc' = "raised"
    /\ stages' = Append(stages, "priority")
    /\ UNCHANGED <<response, url_arg, url, lighthouse_available, chrome_installed, output_file,
                   chrome_process, lh_return, lighthouse_results, calls>>

Next ==
    \/ Validate
    \/ CheckWebsiteBasics
    \/ InspectBasics
    \/ Fallback
    \/ FallbackAnalysis
    \/ EnterLighthouse
    \/ LaunchChrome
    \/ ChromeAudit
    \/ Standalone
    \/ ParseOutput
    \/ Finally
    \/ Normalizer
    \/ NoReport
    \/ SetPriority

Spec == Init /\ [][Next]_vars

(***************************************************************************)
(* _calculate_priority on its own: results built from sampled scores and   *)
(* from lists of issues the stages can record.                             *)
(***************************************************************************)

\* The longest list of issues handed to _calculate_priority on its own.
MaxIssues == 4

ScoreSamples == {0, 59, 60, 61, 100}

IssueSamples ==
    { AccessErrorIssue(<<"Connection refused">>),
      BasicErrorIssue(<<"Network", " ", "Error">>),
      NoSslIssue }

RECURSIVE IssueLists(_)
IssueLists(n) ==
    IF n = 0 THEN { << >> }
    ELSE LET shorter == IssueLists(n - 1)
         IN  shorter \cup { Append(l, i) : l \in { x \in shorter : Len(x) = n - 1 },
                                           i \in IssueSamples }

InitPriority ==
    /\ pc = "priority"
    /\ url_arg = <<"https://", "example.com">>
    /\ url = url_arg
    /\ \E p \in ScoreSamples, s \in ScoreSamples, a \in ScoreSamples, b \in ScoreSamples,
          l \in IssueLists(MaxIssues) :
         results = [FreshResults EXCEPT !.performance_score = PyInt(p),
                                        !.seo_score = PyInt(s),
                                        !.accessibility_score = PyInt(a),
                                        !.best_practices_score = PyInt(b),
                                        !.issues = l]
    /\ lighthouse_available = FALSE
    /\ chrome_installed = FALSE
    /\ output_file = NoFile
    /\ chrome_process = "none"
    /\ lh_return = PyNone
    /\ lighthouse_results = PyNone
    /\ stages = << >>
    /\ calls = << >>
    /\ response = NoResponse

SpecPriority == InitPriority /\ [][SetPriority]_vars

(***************************************************************************)
(* Properties                                                              *)
(***************************************************************************)

Returned == pc = "returned"

\* _run_lighthouse has returned to analyze_website.
LighthouseReturned ==
    /\ pc \in {"after_lighthouse", "priority", "returned", "raised"}
    /\ \E i \in 1..Len(stages) : stages[i] = "lighthouse"

HasStage(name) == \E i \in 1..Len(stages) : stages[i] = name

HasCall(fn, raised) ==
    \E i \in 1..Len(calls) : calls[i].fn = fn /\ calls[i].raised = raised

\* C1: analyze_website never raises an exception to its caller, whatever the
\* url and whatever the collaborators do (here: whatever report they write).
C1_NeverRaises == pc # "raised"

\* C2: every returned result carries a priority in {1, 2, 3}, and for the
\* empty url that priority is 2.
C2_PriorityInReturnedResult ==
    Returned =>
        /\ "priority" \in DOMAIN results
        /\ results["priority"] \in {1, 2, 3}
        /\ (Len(url_arg) = 0 => results["priority"] = 2)

\* C3: once _run_lighthouse has returned, on whatever path, the temporary
\* output file does not exist.
C3_TempFileRemoved == LighthouseReturned => ~output_file.exists

\* C3 witness: the standalone run timed out, the file was there to unlink,
\* and _run_lighthouse has returned.
C3_Witness ==
    /\ LighthouseReturned
    /\ HasCall("lighthouse", "TimeoutExpired")
    /\ HasCall("os.unlink", "no")

\* C4: a call on a non-empty url that obtained no external report has run
\* the fallback heuristic analyzer by the time the priority is computed.
C4_FallbackWhenNoReport ==
    (pc \in {"priority", "returned", "raised"} /\ Len(url_arg) > 0
       /\ lighthouse_results.none)
        => HasStage("fallback")

\* The reference rule of the priority calculator, read off the result: 1 when
\* some single issue holds the marker, else 2 when the mean of the four
\* scores is below 60 or there are more than 3 issues, else 3.
ReferencePriority(res) ==
    IF \E i \in 1..Len(res.issues) : Contains(res.issues[i], AccessErrorMarker)
    THEN 1
    ELSE IF res.performance_score.n + res.seo_score.n + res.accessibility_score.n
              + res.best_practices_score.n < 4 * 60
            \/ Len(res.issues) > 3
         THEN 2
    ELSE 3

\* C5: for scores in [0, 100] and any list of recorded issues,
\* _calculate_priority returns what the reference rule gives, and returns.
C5_PriorityMatchesRule ==
    /\ pc # "raised"
    /\ Returned => results["priority"] = ReferencePriority(results)

\* C5 witness: a mean of exactly 60 with exactly 3 issues gave priority 3.
C5_Witness ==
    /\ Returned
    /\ Len(results.issues) = 3
    /\ results.performance_score.n + results.seo_score.n
         + results.accessibility_score.n + results.best_practices_score.n = 240
    /\ results["priority"] = 3

\* C6: every step of a call leaves the issues it found as a prefix of the
\* issues it leaves: nothing is removed, merged or reordered.
C6_IssuesAppendOnly == [][IsPrefix(results.issues, results'.issues)]_vars

\* C6 witness: a returned result whose issues hold the same string twice,
\* recorded by two different stages.
C6_Witness ==
    /\ Returned
    /\ Len(results.issues) >= 3
    /\ \E i, j \in 1..Len(results.issues) : i < j /\ results.issues[i] = results.issues[j]

\* The categories of the report the normalizer was given.
ReportCategories == Get(lighthouse_results.data.body, "categories", EmptyDict)

\* A score the auditor can write: a number from 0 to 1.
WellFormed(v) == v.t \in {"float", "int"} /\ v.n <= v.d

CategoryField(key) ==
    CASE key = "performance" -> "performance_score"
      [] key = "accessibility" -> "accessibility_score"
      [] key = "best-practices" -> "best_practices_score"
      [] OTHER -> "seo_score"

\* C7: after the normalizer has processed a report whose categories all
\* carry well-formed scores, a field whose category is absent still holds 0
\* and a field whose category is present holds the score times 100.
C7_NormalizerScores ==
    (pc = "priority" /\ HasStage("normalizer")
       /\ lighthouse_results.data.kind = "dict"
       /\ \A key \in DOMAIN ReportCategories :
            "score" \in DOMAIN ReportCategories[key]
            /\ WellFormed(ReportCategories[key]["score"]))
        => \A key \in {"performance", "accessibility", "best-practices", "seo"} :
             IF key \in DOMAIN ReportCategories
             THEN /\ ~results[CategoryField(key)].huge
                  /\ results[CategoryField(key)].n * ReportCategories[key]["score"].d
                       = ReportCategories[key]["score"].n * 100
             ELSE results[CategoryField(key)] = PyInt(0)

\* C8: a call with the empty url only ever validates and returns: the
\* result holds the one issue, zero scores and false flags, and no stage ran
\* and no collaborator was called.
C8_EmptyUrlReturnsAtOnce ==
    Len(url_arg) = 0 =>
        /\ pc \in {"call", "returned"}
        /\ Returned =>
             /\ results.issues = <<NoUrlIssue>>
             /\ \A f \in ScoreFields : results[f] = PyInt(0)
             /\ ~results.has_ssl
             /\ ~results.has_mobile_viewport
             /\ stages = << >>
             /\ calls = << >>

\* C8 witness: the call with the empty url has returned.
C8_Witness == Returned /\ Len(url_arg) = 0

\* C9: a browser process that was launched is not running any more when
\* _run_lighthouse has returned.
C9_BrowserTerminated == LighthouseReturned => chrome_process # "running"

StageOrders ==
    { <<"basic", "lighthouse", "priority">>,
      <<"basic", "lighthouse", "normalizer", "priority">>,
      <<"basic", "fallback", "priority">> }

\* C10: the stages of a call on a non-empty url always form the start of one
\* of the three orders (prober, then exactly one branch, then priority); a
\* finished call has run one order to its end, the normalizer only on a
\* report that came back, and the priority it returns is the priority of the
\* result as returned: nothing changed issues or scores after it.
C10_StageOrder ==
    /\ \E order \in StageOrders : IsPrefix(stages, order)
    /\ (pc \in {"returned", "raised"} /\ Len(url_arg) > 0) => stages \in StageOrders
    /\ HasStage("normalizer") => ~lighthouse_results.none
    /\ (Returned /\ Len(url_arg) > 0) =>
          results["priority"] = calculate_priority(results).val

\* C10 witness: a call that went through prober, external tool, normalizer
\* and priority has returned.
C10_Witness ==
    Returned /\ stages = <<"basic", "lighthouse", "normalizer", "priority">>

\* The prober recorded an error status: only line 134 writes this issue.
StatusRecorded ==
    \E i \in 1..Len(results.issues), code \in Statuses :
        results.issues[i] = StatusIssue(code)

\* C11: when the prober's fetch returned a status of 400 or more, the rest of
\* the prober appends the one issue naming that status and changes nothing
\* else of the result (no redirect, viewport or size issue; the viewport
\* flag stays false), and the call goes on: it is at the branch next, it can
\* take a step wherever it has not ended, and where it has ended it has run
\* a branch stage and the priority calculation.
C11_ErrorStatusStopsBasics ==
    /\ [][(pc = "inspect" /\ response.raised = "no" /\ response.status_code >= 400)
            => /\ results' = AppendIssue(results, StatusIssue(response.status_code))
               /\ ~results'.has_mobile_viewport
               /\ pc' = "branch"]_vars
    /\ [](StatusRecorded =>
            IF pc \in {"returned", "raised"}
            THEN /\ HasStage("priority")
                 /\ HasStage("lighthouse") \/ HasStage("fallback")
            ELSE ENABLED Next)

\* C11 witness: a call whose prober met status 503 on a page that redirects,
\* has no viewport tag and is large has returned with that one prober issue
\* after the https notice.
C11_Witness ==
    /\ Returned
    /\ HasStage("fallback")
    /\ url = <<"https://", "example.com">>
    /\ results.issues[1] = StatusIssue(503)
    /\ results.issues[2] = NotAvailableIssue

\* The issues a step has added to the result.
AddedIssues == DropFirst(results'.issues, Len(results.issues))

\* The page text holds an <img> tag and no alt= attribute marker at all.
ImgWithoutAnyAlt(text) ==
    /\ Contains(Lower(text), <<"<img ">>)
    /\ ~Contains(Lower(text), <<" alt=">>)

\* C12: on a fetched page the fallback analysis leaves accessibility_score 40
\* and adds the alt-text issue exactly when the page holds an <img> tag and
\* no alt= marker in any quoting style; otherwise it leaves 50 and adds no
\* such issue.
C12_AltTextHeuristic ==
    [][(pc = "analysis" /\ response.raised = "no")
         => IF ImgWithoutAnyAlt(response.text)
            THEN /\ results'.accessibility_score = PyInt(40)
                 /\ \E i \in 1..Len(AddedIssues) : AddedIssues[i] = MissingAltIssue
            ELSE /\ results'.accessibility_score = PyInt(50)
                 /\ \A i \in 1..Len(AddedIssues) : AddedIssues[i] # MissingAltIssue]_vars

\* The scores the fallback analysis leaves when its fetch succeeded and no
\* heuristic downgraded anything.
FallbackDefaults ==
    /\ results.performance_score = PyInt(70)
    /\ results.seo_score = PyInt(60)
    /\ results.accessibility_score = PyInt(50)
    /\ results.best_practices_score = PyInt(60)

\* The number of issues the prober recorded in a call that took the fallback
\* branch: those before the notice that the tool is not available.
ProberIssueCount ==
    Cardinality({ i \in 1..Len(results.issues) :
                    \E j \in (i + 1)..Len(results.issues) :
                        results.issues[j] = NotAvailableIssue })

MarkerRecorded ==
    \E i \in 1..Len(results.issues) : Contains(results.issues[i], AccessErrorMarker)

\* C13: a call that took the fallback branch returns priority 3 only with
\* the scores 70, 60, 50, 60 and at most 2 issues from the prober; with any
\* other scores (a downgrade, or a failed fallback fetch) it returns 1 when
\* an issue holds the access-error marker and 2 otherwise.
C13_FallbackPriority ==
    (Returned /\ HasStage("fallback")) =>
        /\ results["priority"] = 3 => (FallbackDefaults /\ ProberIssueCount <= 2)
        /\ ~FallbackDefaults =>
              results["priority"] = IF MarkerRecorded THEN 1 ELSE 2

\* C13 witness: a fallback call returned priority 3 with 2 prober issues.
C13_Witness ==
    /\ Returned
    /\ HasStage("fallback")
    /\ results["priority"] = 3
    /\ ProberIssueCount = 2

=============================================================================
